---------------------------- MODULE Spec2Model ----------------------------
(***************************************************************************)
(* Model of the SQL front end in db_cli.py: the regex lexer (Lexer) and    *)
(* the recursive-descent parser (Parser) with its AST dataclasses.         *)
(*                                                                         *)
(* Source text is a sequence of one-character strings.  Offsets reported   *)
(* by the program (Token.pos, error positions) are 0-based as in Python;   *)
(* TLA+ sequences are 1-based, so character i of the source sits at        *)
(* code[i + 1] and token number p sits at tokens[p + 1].                   *)
(***************************************************************************)
EXTENDS Integers, Sequences, FiniteSets, TLC

VARIABLES code, tokens, pos, pc, ast, err

vars == <<code, tokens, pos, pc, ast, err>>

(***************************************************************************)
(* Bounds of the exploration.                                              *)
(***************************************************************************)
MaxTail == 3

(***************************************************************************)
(* Character classes used by the patterns of TOKEN_SPEC.                   *)
(***************************************************************************)
LowerCase == <<"a","b","c","d","e","f","g","h","i","j","k","l","m",
               "n","o","p","q","r","s","t","u","v","w","x","y","z">>
UpperCase == <<"A","B","C","D","E","F","G","H","I","J","K","L","M",
               "N","O","P","Q","R","S","T","U","V","W","X","Y","Z">>
DigitChars == <<"0","1","2","3","4","5","6","7","8","9">>

Range(f) == {f[i] : i \in DOMAIN f}

Digit == Range(DigitChars)
Letter == Range(LowerCase) \cup Range(UpperCase)
IdStart == Letter \cup {"_"}
WordChar == Letter \cup Digit \cup {"_"}
Space == {" ", "\t", "\n", "\r"}
Quote == "'"

UpperOf ==
    [c \in Range(LowerCase) |->
        UpperCase[CHOOSE i \in DOMAIN LowerCase : LowerCase[i] = c]]

\* str.upper() on one character
UpperChar(c) == IF c \in DOMAIN UpperOf THEN UpperOf[c] ELSE c

\* str.upper()
Upper(s) == [i \in DOMAIN s |-> UpperChar(s[i])]

ValueOf ==
    [c \in Digit |-> (CHOOSE i \in DOMAIN DigitChars : DigitChars[i] = c) - 1]

\* int() of one decimal digit
DigitVal(c) == ValueOf[c]

RECURSIVE NatOf(_)
NatOf(s) ==
    IF s = <<>> THEN 0
    ELSE 10 * NatOf(SubSeq(s, 1, Len(s) - 1)) + DigitVal(s[Len(s)])

\* int() of the text of a NUMBER token, -?\d+
PyInt(s) == IF s[1] = "-" THEN 0 - NatOf(Tail(s)) ELSE NatOf(s)

\* The slice s[a:b] of Python for 0 <= a, clipped at the end of s
Slice(s, a, b) == SubSeq(s, a + 1, IF b < Len(s) THEN b ELSE Len(s))

(***************************************************************************)
(* TOKEN_SPEC.  Each Match operator takes the source and a 1-based index   *)
(* and returns the 1-based index just after the match, or 0 when the       *)
(* alternative does not match there.                                       *)
(***************************************************************************)

\* end of the maximal run of characters of class C starting at i
RECURSIVE RunEnd(_, _, _)
RunEnd(s, i, C) ==
    IF i > Len(s) \/ s[i] \notin C THEN i ELSE RunEnd(s, i + 1, C)

\* \b : exactly one side of the gap before index i is a word character
WordBoundary(s, i) ==
    LET before == i - 1 >= 1 /\ i - 1 <= Len(s) /\ s[i - 1] \in WordChar
        after == i >= 1 /\ i <= Len(s) /\ s[i] \in WordChar
    IN before # after

\* NUMBER  -?\d+
MatchNumber(s, i) ==
    IF s[i] = "-"
    THEN IF i + 1 <= Len(s) /\ s[i + 1] \in Digit
         THEN RunEnd(s, i + 1, Digit) ELSE 0
    ELSE IF s[i] \in Digit THEN RunEnd(s, i, Digit) ELSE 0

\* The places where the loop (?:''|[^'])* can stop when started at j:
\* j itself, then the place after each further item taken greedily.
RECURSIVE StringStops(_, _)
StringStops(s, j) ==
    IF j > Len(s) THEN <<j>>
    ELSE IF s[j] # Quote THEN <<j>> \o StringStops(s, j + 1)
    ELSE IF j + 1 <= Len(s) /\ s[j + 1] = Quote
         THEN <<j>> \o StringStops(s, j + 2)
         ELSE <<j>>

\* STRING  '(?:''|[^'])*'  : the loop is greedy and backtracks, so the
\* closing quote is taken at the last stop that is followed by a quote.
MatchString(s, i) ==
    IF s[i] # Quote THEN 0
    ELSE LET stops == StringStops(s, i + 1)
             closing == {k \in DOMAIN stops :
                           stops[k] <= Len(s) /\ s[stops[k]] = Quote}
         IN IF closing = {} THEN 0
            ELSE stops[CHOOSE k \in closing : \A m \in closing : m <= k] + 1

Keywords ==
    << <<"S","E","L","E","C","T">>, <<"F","R","O","M">>,
       <<"W","H","E","R","E">>, <<"C","R","E","A","T","E">>,
       <<"T","A","B","L","E">>, <<"I","N","S","E","R","T">>,
       <<"I","N","T","O">>, <<"V","A","L","U","E","S">>,
       <<"L","I","M","I","T">>, <<"A","N","D">>, <<"O","R">>,
       <<"I","N","T">>, <<"B","I","G","I","N","T">>,
       <<"T","E","X","T">>, <<"N","U","L","L">> >>

\* does alternative k of the KEYWORD group match at i (re.IGNORECASE)
KeywordAt(s, i, k) ==
    LET e == i + Len(Keywords[k])
    IN /\ WordBoundary(s, i)
       /\ e - 1 <= Len(s)
       /\ Upper(SubSeq(s, i, e - 1)) = Keywords[k]
       /\ WordBoundary(s, e)

\* KEYWORD  \b(SELECT|...|NULL)\b : first alternative that matches
MatchKeyword(s, i) ==
    LET hits == {k \in DOMAIN Keywords : KeywordAt(s, i, k)}
    IN IF s[i] \notin Letter \/ hits = {} THEN 0
       ELSE i + Len(Keywords[CHOOSE k \in hits : \A m \in hits : k <= m])

\* ID  [a-zA-Z_][a-zA-Z0-9_]*
MatchId(s, i) == IF s[i] \in IdStart THEN RunEnd(s, i + 1, WordChar) ELSE 0

\* OP  !=|<=|>=|[=<>*]
MatchOp(s, i) ==
    IF i + 1 <= Len(s) /\ s[i] \in {"!", "<", ">"} /\ s[i + 1] = "="
    THEN i + 2
    ELSE IF s[i] \in {"=", "<", ">", "*"} THEN i + 1 ELSE 0

\* DELIM  [(),;]
MatchDelim(s, i) == IF s[i] \in {"(", ")", ",", ";"} THEN i + 1 ELSE 0

\* SKIP  [ \t\n\r]+
MatchSkip(s, i) == IF s[i] \in Space THEN RunEnd(s, i, Space) ELSE 0

\* The alternation of the named groups, tried in the order of TOKEN_SPEC;
\* MISMATCH ('.') takes whatever single character is left.
TOKEN_SPEC(s, i) ==
    LET number == MatchNumber(s, i)
        string == MatchString(s, i)
        keyword == MatchKeyword(s, i)
        id == MatchId(s, i)
        op == MatchOp(s, i)
        delim == MatchDelim(s, i)
        skip == MatchSkip(s, i)
    IN IF number # 0 THEN [kind |-> "NUMBER", end |-> number]
       ELSE IF string # 0 THEN [kind |-> "STRING", end |-> string]
       ELSE IF keyword # 0 THEN [kind |-> "KEYWORD", end |-> keyword]
       ELSE IF id # 0 THEN [kind |-> "ID", end |-> id]
       ELSE IF op # 0 THEN [kind |-> "OP", end |-> op]
       ELSE IF delim # 0 THEN [kind |-> "DELIM", end |-> delim]
       ELSE IF skip # 0 THEN [kind |-> "SKIP", end |-> skip]
       ELSE [kind |-> "MISMATCH", end |-> i + 1]

Token(type, value, position) == [type |-> type, value |-> value, pos |-> position]

\* Lexer.tokenize: the loop over re.finditer from index i with the tokens
\* collected so far, then the EOF token.
RECURSIVE tokenize(_, _, _)
tokenize(s, i, acc) ==
    IF i > Len(s)
    THEN [raised |-> FALSE, tokens |-> Append(acc, Token("EOF", <<>>, Len(s))),
          position |-> 0]
    ELSE LET mo == TOKEN_SPEC(s, i)
             value == SubSeq(s, i, mo.end - 1)
         IN IF mo.kind = "SKIP" THEN tokenize(s, mo.end, acc)
            ELSE IF mo.kind = "MISMATCH"
            THEN [raised |-> TRUE, tokens |-> acc, position |-> i - 1]
            ELSE tokenize(s, mo.end,
                          Append(acc, Token(mo.kind,
                                            IF mo.kind = "KEYWORD"
                                            THEN Upper(value) ELSE value,
                                            i - 1)))

(***************************************************************************)
(* Python values.  A field that holds values of several Python types       *)
(* (None, int, str, list) holds one of these tagged records.               *)
(***************************************************************************)
None == [py |-> "None"]
PyNum(n) == [py |-> "int", n |-> n]
PyStr(s) == [py |-> "str", s |-> s]
PyList(l) == [py |-> "list", items |-> l]

(***************************************************************************)
(* AST dataclasses.                                                        *)
(***************************************************************************)
ColumnRef(name) == [name |-> name, type |-> "ColumnRef"]
Literal(value) == [value |-> value, type |-> "Literal"]
BinaryOp(left, op, right) ==
    [left |-> left, op |-> op, right |-> right, type |-> "BinaryOp"]
ColumnDef(name, data_type) == [name |-> name, data_type |-> data_type]

\* both are built with keyword arguments
CreateTableStmt(table_name, columns, type) ==
    [type |-> type, table_name |-> table_name, columns |-> columns]
InsertStmt(table_name, values, type) ==
    [type |-> type, table_name |-> table_name, values |-> values]

\* The fields of the dataclass SelectStmt(Statement) in the order of the
\* generated __init__: the inherited field 'type' keeps the first place,
\* then the fields the class body adds.
SelectStmtFields == <<"type", "from_table", "selection", "limit">>

\* SelectStmt(*args): positional arguments bind to the fields in order
SelectStmt(args) ==
    [f \in Range(SelectStmtFields) |->
        args[CHOOSE i \in DOMAIN SelectStmtFields : SelectStmtFields[i] = f]]

(***************************************************************************)
(* Text of the keywords and punctuation the parser compares against.       *)
(***************************************************************************)
kCREATE == <<"C","R","E","A","T","E">>
kTABLE == <<"T","A","B","L","E">>
kINSERT == <<"I","N","S","E","R","T">>
kINTO == <<"I","N","T","O">>
kVALUES == <<"V","A","L","U","E","S">>
kSELECT == <<"S","E","L","E","C","T">>
kFROM == <<"F","R","O","M">>
kWHERE == <<"W","H","E","R","E">>
kLIMIT == <<"L","I","M","I","T">>
kAND == <<"A","N","D">>
kOR == <<"O","R">>
kNULL == <<"N","U","L","L">>
kINT == <<"I","N","T">>
kBIGINT == <<"B","I","G","I","N","T">>
kTEXT == <<"T","E","X","T">>
STAR == <<"*">>
LPAREN == <<"(">>
RPAREN == <<")">>
COMMA == <<",">>

(***************************************************************************)
(* Parser.  Every method is an operator of the cursor it starts from and   *)
(* yields the outcome st ("ok", "SystemExit" after error(), "IndexError"   *)
(* when tokens[pos] does not exist), the cursor it leaves, the value it    *)
(* returns and the report error() printed.                                 *)
(***************************************************************************)
NoErr == [position |-> 0 - 1, fmt |-> "", targs |-> <<>>, vargs |-> <<>>,
          near |-> <<>>]

Ok(p, v) == [st |-> "ok", pos |-> p, val |-> v, err |-> NoErr]
IndexError(p) == [st |-> "IndexError", pos |-> p, val |-> None, err |-> NoErr]

InBounds(p) == p >= 0 /\ p < Len(tokens)

\* Parser.peek, for a cursor that is in bounds
peek(p) == tokens[p + 1]

\* Parser.error: the report is located at the token under the cursor
error(p, fmt, targs, vargs) ==
    IF ~InBounds(p) THEN IndexError(p)
    ELSE LET token == peek(p)
             start == IF token.pos - 10 > 0 THEN token.pos - 10 ELSE 0
         IN [st |-> "SystemExit", pos |-> p, val |-> None,
             err |-> [position |-> token.pos, fmt |-> fmt, targs |-> targs,
                      vargs |-> vargs,
                      near |-> Slice(code, start, token.pos + 10)]]

\* consume with the type test made only when a value is expected too
consume_untyped(p, expected_type, expected_value) ==
    IF ~InBounds(p) THEN IndexError(p)
    ELSE LET token == peek(p)
         IN IF expected_value # <<>> /\ token.type # expected_type
            THEN error(p, "Expected %s, got %s",
                       <<expected_type, token.type>>, <<>>)
            ELSE IF /\ expected_value # <<>>
                    /\ Upper(token.value) # Upper(expected_value)
            THEN error(p, "Expected '%s', got '%s'", <<>>,
                       <<expected_value, token.value>>)
            ELSE Ok(p + 1, token)

\* Parser.consume; expected_type "" and expected_value <<>> stand for None
consume(p, expected_type, expected_value) ==
    IF ~InBounds(p) THEN IndexError(p)
    ELSE LET token == peek(p)
         IN IF expected_type # "" /\ token.type # expected_type
            THEN error(p, "Expected %s, got %s",
                       <<expected_type, token.type>>, <<>>)
            ELSE IF /\ expected_value # <<>>
                    /\ Upper(token.value) # Upper(expected_value)
            THEN error(p, "Expected '%s', got '%s'", <<>>,
                       <<expected_value, token.value>>)
            ELSE Ok(p + 1, token)

\* a statement after a call: an outcome other than "ok" (SystemExit,
\* IndexError) unwinds, otherwise the rest of the method runs on the result
Then(r, rest(_)) == IF r.st # "ok" THEN r ELSE rest(r)

DataTypes == {kINT, kBIGINT, kTEXT}

RECURSIVE create_columns(_, _)

\* the loop of parse_create with each column put in front of the list
create_columns_prepend(p, columns) ==
    Then(consume(p, "ID", <<>>), LAMBDA name :
    Then(consume(name.pos, "KEYWORD", <<>>), LAMBDA type :
        IF type.val.value \notin DataTypes
        THEN error(type.pos, "Unsupported data type %s", <<>>,
                   <<type.val.value>>)
        ELSE IF ~InBounds(type.pos) THEN IndexError(type.pos)
        ELSE IF peek(type.pos).value = RPAREN
        THEN Ok(type.pos,
                <<ColumnDef(name.val.value, type.val.value)>> \o columns)
        ELSE Then(consume(type.pos, "DELIM", COMMA), LAMBDA sep :
                 create_columns(sep.pos,
                     <<ColumnDef(name.val.value, type.val.value)>> \o columns))))

\* the while loop of parse_create, entered at cursor p with the columns
\* collected so far
create_columns(p, columns) ==
    Then(consume(p, "ID", <<>>), LAMBDA name :
    Then(consume(name.pos, "KEYWORD", <<>>), LAMBDA type :
        IF type.val.value \notin DataTypes
        THEN error(type.pos, "Unsupported data type %s", <<>>,
                   <<type.val.value>>)
        ELSE IF ~InBounds(type.pos) THEN IndexError(type.pos)
        ELSE IF peek(type.pos).value = RPAREN
        THEN Ok(type.pos,
                Append(columns, ColumnDef(name.val.value, type.val.value)))
        ELSE Then(consume(type.pos, "DELIM", COMMA), LAMBDA sep :
                 create_columns(sep.pos,
                     Append(columns,
                            ColumnDef(name.val.value, type.val.value))))))

parse_create(p) ==
    Then(consume(p, "KEYWORD", kCREATE), LAMBDA c1 :
    Then(consume(c1.pos, "KEYWORD", kTABLE), LAMBDA c2 :
    Then(consume(c2.pos, "ID", <<>>), LAMBDA name :
    Then(consume(name.pos, "DELIM", LPAREN), LAMBDA open :
    Then(create_columns(open.pos, <<>>), LAMBDA columns :
    Then(consume(columns.pos, "DELIM", RPAREN), LAMBDA close :
        Ok(close.pos,
           CreateTableStmt(name.val.value, columns.val, "CREATE_TABLE"))))))))

RECURSIVE parse_expression(_)
RECURSIVE or_loop(_, _)
RECURSIVE and_loop(_, _)

\* str.strip("'"): every leading and every trailing quote is removed
Strip(s) ==
    LET keep == {i \in DOMAIN s : s[i] # Quote}
    IN IF keep = {} THEN <<>>
       ELSE SubSeq(s, CHOOSE i \in keep : \A j \in keep : i <= j,
                      CHOOSE i \in keep : \A j \in keep : j <= i)

parse_primary(p) ==
    IF ~InBounds(p) THEN IndexError(p)
    ELSE IF peek(p).type = "NUMBER"
    THEN Then(consume(p, "", <<>>), LAMBDA token :
             Ok(token.pos, Literal(PyNum(PyInt(token.val.value)))))
    ELSE IF peek(p).type = "STRING"
    THEN Then(consume(p, "", <<>>), LAMBDA token :
             Ok(token.pos, Literal(PyStr(Strip(token.val.value)))))
    ELSE IF peek(p).value = kNULL
    THEN Then(consume(p, "", <<>>), LAMBDA token :
             Ok(token.pos, Literal(None)))
    ELSE IF peek(p).type = "ID"
    THEN Then(consume(p, "", <<>>), LAMBDA token :
             Ok(token.pos, ColumnRef(token.val.value)))
    ELSE IF peek(p).value = LPAREN
    THEN Then(consume(p, "DELIM", LPAREN), LAMBDA open :
         Then(parse_expression(open.pos), LAMBDA expr :
         Then(consume(expr.pos, "DELIM", RPAREN), LAMBDA close :
             Ok(close.pos, expr.val))))
    ELSE error(p, "Unexpected token in expression: %s", <<>>,
               <<peek(p).value>>)

parse_comparison(p) ==
    Then(parse_primary(p), LAMBDA node :
        IF ~InBounds(node.pos) THEN IndexError(node.pos)
        ELSE IF peek(node.pos).type = "OP" /\ peek(node.pos).value # STAR
        THEN Then(consume(node.pos, "", <<>>), LAMBDA op :
             Then(parse_primary(op.pos), LAMBDA right :
                 Ok(right.pos, BinaryOp(node.val, op.val.value, right.val))))
        ELSE node)

\* the while loop of parse_and, entered at cursor p with the node so far
and_loop(p, node) ==
    IF ~InBounds(p) THEN IndexError(p)
    ELSE IF peek(p).value = kAND
    THEN Then(consume(p, "", <<>>), LAMBDA op :
         Then(parse_comparison(op.pos), LAMBDA right :
             and_loop(right.pos, BinaryOp(node, op.val.value, right.val))))
    ELSE Ok(p, node)

parse_and(p) ==
    Then(parse_comparison(p), LAMBDA node : and_loop(node.pos, node.val))

\* the loop of parse_or with a comparison, not an AND chain, as right operand
or_loop_flat(p, node) ==
    IF ~InBounds(p) THEN IndexError(p)
    ELSE IF peek(p).value = kOR
    THEN Then(consume(p, "", <<>>), LAMBDA op :
         Then(parse_comparison(op.pos), LAMBDA right :
             or_loop(right.pos, BinaryOp(node, op.val.value, right.val))))
    ELSE Ok(p, node)

\* the while loop of parse_or, entered at cursor p with the node so far
or_loop(p, node) ==
    IF ~InBounds(p) THEN IndexError(p)
    ELSE IF peek(p).value = kOR
    THEN Then(consume(p, "", <<>>), LAMBDA op :
         Then(parse_and(op.pos), LAMBDA right :
             or_loop(right.pos, BinaryOp(node, op.val.value, right.val))))
    ELSE Ok(p, node)

parse_or(p) ==
    Then(parse_and(p), LAMBDA node : or_loop(node.pos, node.val))

parse_expression(p) == parse_or(p)

\* the while loop of parse_insert, entered at cursor p with the values
\* collected so far
RECURSIVE insert_values(_, _)
insert_values(p, values) ==
    Then(parse_expression(p), LAMBDA expr :
        IF ~InBounds(expr.pos) THEN IndexError(expr.pos)
        ELSE IF peek(expr.pos).value = RPAREN
        THEN Ok(expr.pos, Append(values, expr.val))
        ELSE Then(consume(expr.pos, "DELIM", COMMA), LAMBDA sep :
                 insert_values(sep.pos, Append(values, expr.val))))

parse_insert(p) ==
    Then(consume(p, "KEYWORD", kINSERT), LAMBDA c1 :
    Then(consume(c1.pos, "KEYWORD", kINTO), LAMBDA c2 :
    Then(consume(c2.pos, "ID", <<>>), LAMBDA name :
    Then(consume(name.pos, "KEYWORD", kVALUES), LAMBDA c3 :
    Then(consume(c3.pos, "DELIM", LPAREN), LAMBDA open :
    Then(insert_values(open.pos, <<>>), LAMBDA values :
    Then(consume(values.pos, "DELIM", RPAREN), LAMBDA close :
        Ok(close.pos, InsertStmt(name.val.value, values.val, "INSERT")))))))))

\* the while loop that collects the projection list of parse_select
RECURSIVE select_columns(_, _)
select_columns(p, projections) ==
    Then(consume(p, "ID", <<>>), LAMBDA name :
        IF ~InBounds(name.pos) THEN IndexError(name.pos)
        ELSE IF peek(name.pos).value # COMMA
        THEN Ok(name.pos, PyList(Append(projections, name.val.value)))
        ELSE Then(consume(name.pos, "DELIM", COMMA), LAMBDA sep :
                 select_columns(sep.pos, Append(projections, name.val.value))))

\* the projection part of parse_select: '*' or the column loop
select_projections(p) ==
    IF ~InBounds(p) THEN IndexError(p)
    ELSE IF peek(p).value = STAR
    THEN Then(consume(p, "OP", STAR), LAMBDA star : Ok(star.pos, PyStr(STAR)))
    ELSE select_columns(p, <<>>)

\* the optional WHERE clause of parse_select
select_where(p) ==
    IF ~InBounds(p) THEN IndexError(p)
    ELSE IF peek(p).value = kWHERE
    THEN Then(consume(p, "KEYWORD", kWHERE), LAMBDA kw :
             parse_expression(kw.pos))
    ELSE Ok(p, None)

\* the optional LIMIT clause of parse_select
select_limit(p) ==
    IF ~InBounds(p) THEN IndexError(p)
    ELSE IF peek(p).value = kLIMIT
    THEN Then(consume(p, "KEYWORD", kLIMIT), LAMBDA kw :
         Then(consume(kw.pos, "NUMBER", <<>>), LAMBDA num :
             Ok(num.pos, PyNum(PyInt(num.val.value)))))
    ELSE Ok(p, None)

parse_select(p) ==
    Then(consume(p, "KEYWORD", kSELECT), LAMBDA c1 :
    Then(select_projections(c1.pos), LAMBDA projections :
        IF projections.val \in {PyStr(<<>>), PyList(<<>>)}
        THEN error(projections.pos,
                   "SELECT requires at least one column or '*'", <<>>, <<>>)
        ELSE
    Then(consume(projections.pos, "KEYWORD", kFROM), LAMBDA from :
    Then(consume(from.pos, "ID", <<>>), LAMBDA table_name :
    Then(select_where(table_name.pos), LAMBDA where_clause :
    Then(select_limit(where_clause.pos), LAMBDA limit_val :
        Ok(limit_val.pos,
           SelectStmt(<<projections.val, table_name.val.value,
                        where_clause.val, limit_val.val>>))))))))

(***************************************************************************)
(* Query strings given to the program.  A query is a fixed beginning       *)
(* followed by up to MaxTail pieces of text, joined by single spaces.      *)
(***************************************************************************)
\* any beginning of a statement
FreeHead == <<>>
FreeUnits ==
    { <<"S","E","L","E","C","T">>,
      <<"C","R","E","A","T","E">>,
      <<"i","n","s","e","r","t">>,
      <<"*"," ","F","R","O","M"," ","i","t","e","m","s">>,
      <<"T","A","B","L","E"," ","t","(","a"," ","I","N","T",")">>,
      <<"I","N","T","O"," ","t"," ","V","A","L","U","E","S","(","1",")">>,
      <<"W","H","E","R","E">>,
      <<"#">>,
      <<"1","s","e","l","e","c","t">> }

\* column definitions of CREATE TABLE
CreateHead == <<"C","R","E","A","T","E"," ","T","A","B","L","E"," ","u","s","e","r","s"," ","(">>
CreateUnits ==
    { <<"i","d"," ","I","N","T">>,
      <<","," ","n","a","m","e"," ","t","e","x","t">>,
      <<","," ","n","\t","B","I","G","I","N","T">>,
      <<"a"," ","T","I","M","E","S","T","A","M","P">>,
      <<"a"," ","S","E","L","E","C","T">>,
      <<",">>,
      <<")">>,
      <<"a">> }

\* values of INSERT
InsertHead == <<"I","N","S","E","R","T"," ","I","N","T","O"," ","o","r","d","e","r","s"," ","V","A","L","U","E","S"," ","(">>
InsertUnits ==
    { <<"1","0","1">>,
      <<"N","U","L","L">>,
      <<"'","i","t","'","'","s","'">>,
      <<"'","'","'","a","'">>,
      <<","," ","'","W","i","d","g","e","t","'">>,
      <<","," ","n","u","l","l">>,
      <<","," ","-","5">>,
      <<")">>,
      <<",">> }

\* projection list and clauses of SELECT
ProjectHead == <<"S","E","L","E","C","T">>
ProjectUnits ==
    { <<"*">>,
      <<"i","d">>,
      <<","," ","n","a","m","e">>,
      <<",">>,
      <<"F","R","O","M"," ","i","t","e","m","s">>,
      <<"F","R","O","M">>,
      <<"u","s","e","r","s">>,
      <<"W","H","E","R","E"," ","i","d"," ","="," ","1">>,
      <<"L","I","M","I","T"," ","1","0">> }

\* WHERE expressions
WhereHead == <<"S","E","L","E","C","T"," ","i","d"," ","F","R","O","M"," ","u","s","e","r","s"," ","W","H","E","R","E">>
WhereUnits ==
    { <<"a"," ","="," ","1">>,
      <<"a","g","e",">","=","1","8">>,
      <<"O","R"," ","b"," ","="," ","2">>,
      <<"A","N","D"," ","c"," ","="," ","3">>,
      <<"A","N","D"," ","s","t","a","t","u","s"," ","="," ","'","a","c","t","i","v","e","'">>,
      <<"O","R"," ","d">>,
      <<"="," ","c">>,
      <<"L","I","M","I","T"," ","1","0">>,
      <<"(">>,
      <<")">> }

\* clauses after FROM
ClauseHead == <<"s","e","l","e","c","t"," ","*"," ","f","r","o","m"," ","t">>
ClauseUnits ==
    { <<"W","H","E","R","E"," ","e">>,
      <<"W","H","E","R","E"," ","a"," ","="," ","b">>,
      <<"="," ","c">>,
      <<"L","I","M","I","T"," ","3">>,
      <<"L","I","M","I","T"," ","-","5">>,
      <<"L","I","M","I","T">>,
      <<"L","I","M","I","T"," ","x">>,
      <<";">>,
      <<"A","N","D"," ","f">> }

\* ' '.join(words)
RECURSIVE Join(_)
Join(words) ==
    IF words = <<>> THEN <<>>
    ELSE IF Len(words) = 1 THEN words[1]
    ELSE words[1] \o <<" ">> \o Join(Tail(words))

Tails(units) == UNION {[1..n -> units] : n \in 0..MaxTail}

Family(head, units) ==
    {Join((IF head = <<>> THEN <<>> ELSE <<head>>) \o tail) :
        tail \in Tails(units)}

Queries ==
    Family(FreeHead, FreeUnits) \cup Family(CreateHead, CreateUnits)
    \cup Family(InsertHead, InsertUnits) \cup Family(ProjectHead, ProjectUnits)
    \cup Family(WhereHead, WhereUnits) \cup Family(ClauseHead, ClauseUnits)

(***************************************************************************)
(* The program: main() builds Lexer(query), then Parser(tokens, query),    *)
(* then calls parse().  pc is the place the run has reached, or the way    *)
(* it ended: "done" (parse returned ast), "ValueError" (raised by the      *)
(* lexer), "SystemExit" (Parser.error), "IndexError".                      *)
(***************************************************************************)
Init ==
    /\ code \in Queries
    /\ tokens = <<>>
    /\ pos = 0
    /\ pc = "lex"
    /\ ast = None
    /\ err = NoErr

\* Lexer.__init__ followed by Parser.__init__
Tokenize ==
    /\ pc = "lex"
    /\ LET r == tokenize(code, 1, <<>>)
       IN IF r.raised
          THEN /\ pc' = "ValueError"
               /\ err' = [NoErr EXCEPT !.position = r.position,
                                       !.fmt = "Unexpected character '%s' at position %d",
                                       !.vargs = <<<<code[r.position + 1]>>>>]
               /\ UNCHANGED tokens
          ELSE /\ pc' = "parse"
               /\ tokens' = r.tokens
               /\ UNCHANGED err
    /\ pos' = 0
    /\ UNCHANGED <<code, ast>>

\* what a method of the parser leaves behind when it returns or raises
Finish(r) ==
    /\ pos' = r.pos
    /\ pc' = IF r.st = "ok" THEN "done" ELSE r.st
    /\ ast' = IF r.st = "ok" THEN r.val ELSE ast
    /\ err' = r.err
    /\ UNCHANGED <<code, tokens>>

\* Parser.parse: the dispatch on the first token
Parse ==
    /\ pc = "parse"
    /\ LET token == peek(pos)
       IN IF token.value = kCREATE THEN pc' = "parse_create" /\ UNCHANGED <<pos, ast, err, code, tokens>>
          ELSE IF token.value = kINSERT THEN pc' = "parse_insert" /\ UNCHANGED <<pos, ast, err, code, tokens>>
          ELSE IF token.value = kSELECT THEN pc' = "parse_select" /\ UNCHANGED <<pos, ast, err, code, tokens>>
          ELSE Finish(error(pos, "Unsupported statement start: %s", <<>>,
                            <<token.value>>))

ParseCreate == pc = "parse_create" /\ Finish(parse_create(pos))

ParseInsert == pc = "parse_insert" /\ Finish(parse_insert(pos))

ParseSelect == pc = "parse_select" /\ Finish(parse_select(pos))

Next == Tokenize \/ Parse \/ ParseCreate \/ ParseInsert \/ ParseSelect

Spec == Init /\ [][Next]_vars

(***************************************************************************)
(* Properties.  Token k below is tokens[k], 1-based.                       *)
(***************************************************************************)
Ended == pc \in {"done", "SystemExit", "IndexError"}

TokIs(k, type, value) ==
    k \in DOMAIN tokens /\ tokens[k].type = type /\ tokens[k].value = value

TokType(k, type) == k \in DOMAIN tokens /\ tokens[k].type = type

SelectAccepted == pc = "done" /\ "from_table" \in DOMAIN ast

\* C1: a SELECT is accepted only if the token after its last parsed clause
\* is end-of-input; a dangling token (a second comparison operator, a WHERE
\* after LIMIT) makes parse fail instead of returning a Select.
C1_SelectEndsAtEof == SelectAccepted => tokens[pos + 1].type = "EOF"

\* C2: the limit stored by an accepted SELECT is a non-negative integer.
C2_LimitNonNegative ==
    SelectAccepted => (ast.limit.py = "int" => ast.limit.n >= 0)

\* the projection the source text asks for: '*' or the names before FROM
FromAt == CHOOSE k \in DOMAIN tokens :
              /\ TokIs(k, "KEYWORD", kFROM)
              /\ \A j \in 1..(k - 1) : ~TokIs(j, "KEYWORD", kFROM)
ExpectedProjections ==
    IF TokIs(2, "OP", STAR) THEN PyStr(STAR)
    ELSE PyList([k \in 1..((FromAt - 1) \div 2) |-> tokens[2 * k].value])

\* C3: an accepted SELECT holds its projection ('*' for SELECT *, else the
\* ordered list of column names) in the field projections and in no other
\* field of the statement.
C3_ProjectionsField ==
    SelectAccepted =>
        /\ "projections" \in DOMAIN ast
        /\ ast.projections = ExpectedProjections
        /\ \A f \in DOMAIN ast \ {"projections"} : ast[f] # ExpectedProjections

\* the token sequence INSERT INTO t VALUES ( v1 , ... , vn ) of literals
InsertCount == (Len(tokens) - 6) \div 2
IsLiteralToken(k) ==
    TokType(k, "NUMBER") \/ TokType(k, "STRING") \/ TokIs(k, "KEYWORD", kNULL)
ValidInsert ==
    /\ Ended
    /\ Len(tokens) >= 8 /\ (Len(tokens) - 6) % 2 = 0
    /\ TokIs(1, "KEYWORD", kINSERT) /\ TokIs(2, "KEYWORD", kINTO)
    /\ TokType(3, "ID") /\ TokIs(4, "KEYWORD", kVALUES)
    /\ TokIs(5, "DELIM", LPAREN)
    /\ \A k \in 1..InsertCount :
          /\ IsLiteralToken(2 * k + 4)
          /\ TokIs(2 * k + 5, "DELIM", IF k = InsertCount THEN RPAREN ELSE COMMA)
    /\ TokType(2 * InsertCount + 6, "EOF")

\* the text between the outer quotes of a string literal
Inner(v) == SubSeq(v, 2, Len(v) - 1)

\* every '' of the content replaced by one '
RECURSIVE Unescape(_)
Unescape(s) ==
    IF s = <<>> THEN <<>>
    ELSE IF Len(s) >= 2 /\ s[1] = Quote /\ s[2] = Quote
    THEN <<Quote>> \o Unescape(SubSeq(s, 3, Len(s)))
    ELSE <<s[1]>> \o Unescape(Tail(s))

\* the content of a literal holds quotes only in pairs
RECURSIVE PairedQuotes(_)
PairedQuotes(s) ==
    IF s = <<>> THEN TRUE
    ELSE IF s[1] # Quote THEN PairedQuotes(Tail(s))
    ELSE Len(s) >= 2 /\ s[2] = Quote /\ PairedQuotes(SubSeq(s, 3, Len(s)))

\* C4: a string literal with escaped quotes is one STRING token (the text
\* from its opening quote to its closing quote, escaped quotes inside), and
\* the Literal built from it holds the content with every '' replaced by '
\* and nothing else added or removed.
C4_StringLiteral ==
    /\ \A k \in DOMAIN tokens :
          tokens[k].type = "STRING" =>
              /\ Len(tokens[k].value) >= 2
              /\ PairedQuotes(Inner(tokens[k].value))
    /\ ValidInsert =>
          \A k \in 1..InsertCount :
              TokType(2 * k + 4, "STRING") =>
                  /\ pc = "done"
                  /\ ast.values[k] =
                        Literal(PyStr(Unescape(Inner(tokens[2 * k + 4].value))))

\* the tokens of a WHERE expression: after the first WHERE, up to the end
\* of input or to a closing LIMIT n
WhereAt == CHOOSE k \in DOMAIN tokens :
               /\ TokIs(k, "KEYWORD", kWHERE)
               /\ \A j \in 1..(k - 1) : ~TokIs(j, "KEYWORD", kWHERE)
ExprEnd ==
    IF TokIs(Len(tokens) - 2, "KEYWORD", kLIMIT) /\ TokType(Len(tokens) - 1, "NUMBER")
    THEN Len(tokens) - 3 ELSE Len(tokens) - 1
WhereSpan == SubSeq(tokens, WhereAt + 1, ExprEnd)

IsPrimaryTok(t) ==
    t.type \in {"NUMBER", "STRING", "ID"} \/ (t.type = "KEYWORD" /\ t.value = kNULL)
IsCompareTok(t) == t.type = "OP" /\ t.value # STAR
IsLogicTok(t) == t.type = "KEYWORD" /\ t.value \in {kAND, kOR}

\* comparison ((AND | OR) comparison)*, comparison being primary [op primary]
RECURSIVE IsChain(_)
IsChain(span) ==
    IF span = <<>> THEN FALSE
    ELSE IF ~IsPrimaryTok(span[1]) THEN FALSE
    ELSE LET rest == IF /\ Len(span) >= 3
                        /\ IsCompareTok(span[2])
                        /\ IsPrimaryTok(span[3])
                     THEN SubSeq(span, 4, Len(span)) ELSE Tail(span)
         IN rest = <<>> \/ (IsLogicTok(rest[1]) /\ IsChain(Tail(rest)))

\* SELECT (* | c1, ..., cn) FROM t WHERE chain [LIMIT n]
ValidWhere ==
    /\ Ended
    /\ TokIs(1, "KEYWORD", kSELECT)
    /\ \E k \in DOMAIN tokens : TokIs(k, "KEYWORD", kWHERE)
    /\ WhereAt >= 5
    /\ TokType(WhereAt - 1, "ID") /\ TokIs(WhereAt - 2, "KEYWORD", kFROM)
    /\ \/ WhereAt = 5 /\ TokIs(2, "OP", STAR)
       \/ /\ WhereAt % 2 = 1
          /\ \A k \in 2..(WhereAt - 3) :
                IF k % 2 = 0 THEN TokType(k, "ID") ELSE TokIs(k, "DELIM", COMMA)
    /\ IsChain(WhereSpan)

\* leaves and operators of an expression tree, left to right
RECURSIVE Flatten(_)
Flatten(node) ==
    IF node.type = "BinaryOp"
    THEN Flatten(node.left) \o <<[op |-> node.op]>> \o Flatten(node.right)
    ELSE IF node.type = "ColumnRef"
    THEN <<[leaf |-> "ColumnRef", text |-> node.name]>>
    ELSE <<[leaf |-> "Literal", text |-> <<>>]>>

\* the same for the tokens of the expression
Items(span) ==
    [k \in DOMAIN span |->
        IF IsPrimaryTok(span[k])
        THEN IF span[k].type = "ID"
             THEN [leaf |-> "ColumnRef", text |-> span[k].value]
             ELSE [leaf |-> "Literal", text |-> <<>>]
        ELSE [op |-> span[k].value]]

\* 0 for OR, 1 for AND, 2 for a comparison, 3 for a primary
Level(node) ==
    IF node.type # "BinaryOp" THEN 3
    ELSE IF node.op = kOR THEN 0
    ELSE IF node.op = kAND THEN 1
    ELSE 2

\* AND below OR only, comparisons below both, chains growing to the left
RECURSIVE WellNested(_)
WellNested(node) ==
    IF node.type # "BinaryOp" THEN TRUE
    ELSE /\ Level(node.left) >= Level(node)
         /\ Level(node.right) > Level(node)
         /\ (Level(node) = 2 => Level(node.left) = 3)
         /\ WellNested(node.left)
         /\ WellNested(node.right)

SpanText == [k \in DOMAIN WhereSpan |-> WhereSpan[k].value]
OrAndExample == << <<"a">>, <<"=">>, <<"1">>, <<"O","R">>, <<"b">>, <<"=">>, <<"2">>, <<"A","N","D">>, <<"c">>, <<"=">>, <<"3">> >>
AndExample == << <<"a","g","e">>, <<">","=">>, <<"1","8">>, <<"A","N","D">>, <<"s","t","a","t","u","s">>, <<"=">>, <<"'","a","c","t","i","v","e","'">> >>

\* C5: for an unparenthesized WHERE expression of comparisons joined by AND
\* and OR, the tree keeps the operands in source order, AND binds tighter
\* than OR and both are left-associative; a = 1 OR b = 2 AND c = 3 has root
\* OR with the AND node as right child, age >= 18 AND status = 'active' has
\* root AND over the comparisons >= and =.
C5_Precedence ==
    ValidWhere =>
        /\ pc = "done"
        /\ Flatten(ast.selection) = Items(WhereSpan)
        /\ WellNested(ast.selection)
        /\ SpanText = OrAndExample =>
              /\ ast.selection.op = kOR
              /\ ast.selection.right.type = "BinaryOp"
              /\ ast.selection.right.op = kAND
        /\ SpanText = AndExample =>
              /\ ast.selection.op = kAND
              /\ ast.selection.left.type = "BinaryOp"
              /\ ast.selection.left.op = <<">", "=">>
              /\ ast.selection.right.type = "BinaryOp"
              /\ ast.selection.right.op = <<"=">>

C5_Witness ==
    /\ ValidWhere /\ pc = "done"
    /\ SpanText = OrAndExample
    /\ ast.selection.right.op = kAND

\* the token sequence CREATE TABLE t ( c1 T1 , ... , cn Tn )
CreateCount == (Len(tokens) - 5) \div 3
ValidCreate ==
    /\ Ended
    /\ Len(tokens) >= 8 /\ (Len(tokens) - 5) % 3 = 0
    /\ TokIs(1, "KEYWORD", kCREATE) /\ TokIs(2, "KEYWORD", kTABLE)
    /\ TokType(3, "ID") /\ TokIs(4, "DELIM", LPAREN)
    /\ \A k \in 1..CreateCount :
          /\ TokType(3 * k + 2, "ID")
          /\ TokType(3 * k + 3, "KEYWORD")
          /\ tokens[3 * k + 3].value \in {kINT, kBIGINT, kTEXT}
          /\ TokIs(3 * k + 4, "DELIM", IF k = CreateCount THEN RPAREN ELSE COMMA)
    /\ TokType(3 * CreateCount + 5, "EOF")

ExpectedLiteral(t) ==
    IF t.type = "NUMBER" THEN Literal(PyNum(PyInt(t.value)))
    ELSE IF t.type = "STRING" THEN Literal(PyStr(Unescape(Inner(t.value))))
    ELSE Literal(None)

\* C7: a valid INSERT INTO t VALUES (v1, ..., vn) of n >= 1 literals parses
\* to an Insert named t with exactly n values in source order: NULL as the
\* null Literal, a number as its integer, a string as its text.
C7_InsertValues ==
    ValidInsert =>
        /\ pc = "done"
        /\ ast.table_name = tokens[3].value
        /\ Len(ast.values) = InsertCount
        /\ \A k \in 1..InsertCount :
              ast.values[k] = ExpectedLiteral(tokens[2 * k + 4])

\* the token that starts at a source offset
TokenAt(position) ==
    tokens[CHOOSE k \in DOMAIN tokens : tokens[k].pos = position]

\* C8: a syntax error reports the position of the offending token, the one
\* whose type or text the message names; at end of input that position is
\* the length of the source.
C8_ErrorPosition ==
    pc = "SystemExit" =>
        /\ \E k \in DOMAIN tokens : tokens[k].pos = err.position
        /\ err.fmt = "Expected %s, got %s" =>
              TokenAt(err.position).type = err.targs[2]
        /\ err.fmt = "Expected '%s', got '%s'" =>
              TokenAt(err.position).value = err.vargs[2]
        /\ err.fmt \in {"Unsupported data type %s",
                        "Unexpected token in expression: %s",
                        "Unsupported statement start: %s"} =>
              TokenAt(err.position).value = err.vargs[1]
        /\ TokenAt(err.position).type = "EOF" => err.position = Len(code)

\* CREATE TABLE t ( then m well-formed columns, each followed by a comma,
\* then a column name and, in type position, token 3 * m + 6
TypePosition(m) ==
    /\ TokIs(1, "KEYWORD", kCREATE) /\ TokIs(2, "KEYWORD", kTABLE)
    /\ TokType(3, "ID") /\ TokIs(4, "DELIM", LPAREN)
    /\ \A k \in 1..m :
          /\ TokType(3 * k + 2, "ID")
          /\ TokType(3 * k + 3, "KEYWORD")
          /\ tokens[3 * k + 3].value \in {kINT, kBIGINT, kTEXT}
          /\ TokIs(3 * k + 4, "DELIM", COMMA)
    /\ TokType(3 * m + 5, "ID")
    /\ 3 * m + 6 \in DOMAIN tokens

BadType(t) ==
    /\ t.type \in {"KEYWORD", "ID"}
    /\ ~(t.type = "KEYWORD" /\ t.value \in {kINT, kBIGINT, kTEXT})

\* C9: in CREATE TABLE a token in type position that is not INT, BIGINT or
\* TEXT, keyword or not, fails with "Unsupported data type <X>", X its text.
C9_UnsupportedType ==
    Ended =>
        \A m \in 0..Len(tokens) :
            (TypePosition(m) /\ BadType(tokens[3 * m + 6])) =>
                /\ pc = "SystemExit"
                /\ err.fmt = "Unsupported data type %s"
                /\ err.vargs = <<tokens[3 * m + 6].value>>

\* C10: the token list ends in its only EOF token, placed at the length of
\* the source; that token is never consumed, so the cursor stays at or
\* before it and every peek, the one of error() included, finds a token.
C10_CursorInBounds ==
    pc \notin {"lex", "ValueError"} =>
        /\ Len(tokens) >= 1
        /\ tokens[Len(tokens)] = Token("EOF", <<>>, Len(code))
        /\ \A k \in 1..(Len(tokens) - 1) : tokens[k].type # "EOF"
        /\ pos >= 0 /\ pos <= Len(tokens) - 1
        /\ pc # "IndexError"

C10_Witness ==
    /\ pc = "SystemExit"
    /\ pos = Len(tokens) - 1
    /\ pos >= 5
    /\ err.position = Len(code)

=============================================================================
